---- MODULE Spec2Model ----
(***************************************************************************)
(* Model of the ADA scanner's scan endpoint (src/server.js):               *)
(*   - normalizeUrl and the WHATWG URL operations it relies on,            *)
(*   - the request handler app.post('/api/scan'): validation, browser      *)
(*     launch, the crawl loop with its per-page try/catch, browser close,  *)
(*     AI enrichment and the response,                                     *)
(*   - explainViolations with its concurrently started AI calls.           *)
(*                                                                         *)
(* A URL string is modelled by its syntactic components as written         *)
(* (scheme, host labels, port, path segments, query parameter names,       *)
(* fragment).  "/a//" is the path <<"a", "", "">>, "/" is <<"">> and a     *)
(* string without a path is <<>>.  A string whose scheme is "" has no      *)
(* scheme and does not parse.                                              *)
(***************************************************************************)
EXTENDS Integers, Sequences, FiniteSets, TLC

VARIABLES
    pc,               \* position of the request handler
    req,              \* req.body
    pageLimit,        \* const pageLimit
    aiLevel,          \* const aiLevel
    visited,          \* const visited = new Set()
    toVisit,          \* const toVisit = new Set([...]), in insertion order
    violations,       \* const violations = []
    importantPages,   \* const importantPages = []
    browser,          \* the puppeteer browser: "none", "open", "closed"
    openPages,        \* number of pages opened by browser.newPage() and not closed
    currentUrl,       \* const currentUrl of the running iteration
    isImportantPage,  \* let isImportantPage
    pageData,         \* let pageData
    result,           \* const result of axe.run
    violationsWithExplanations,  \* let violationsWithExplanations
    ai_page_analysis, \* let ai_page_analysis
    analysisIndex,    \* let i of the deep analysis loop
    response,         \* what res.status(..).json(..) sent
    aiCalls,          \* history: AI calls issued by the handler, in order
    audited,          \* history: URLs whose page went through axe.run
    reaudited,        \* history: URLs whose page went through axe.run again
    auditFailed,      \* history: some iteration ended in the per-page catch
    failed,           \* history: URLs whose iteration ended in the per-page catch
    discovered,       \* history: normalized links that reached the enqueue test
    expl,             \* state of one run of explainViolations (SpecExplain)
    site,             \* what the crawled site serves: "any" or "chain"
    pure,             \* one application of a pure function (SpecPure)
    other             \* the frame of a second, suspended handler (SpecTwo)

vars == << pc, req, pageLimit, aiLevel, visited, toVisit, violations,
           importantPages, browser, openPages, currentUrl, isImportantPage,
           pageData, result, violationsWithExplanations, ai_page_analysis,
           analysisIndex, response, aiCalls, audited, reaudited, auditFailed,
           failed, discovered, expl, site, pure, other >>

----------------------------------------------------------------------------
(* Bounds of the model *)

\* a page audit may end with its page left open only while fewer than this
\* many pages are open
MaxOpenPages == 1

\* the scan-wide violation list is explored up to this length
MaxViolations == 2

\* explainViolations is run on lists of up to this many violations
MaxExplainInput == 3

\* a page holds at most this many anchors
MaxLinks == 2

\* pages report form controls only while fewer than this many snapshots exist
MaxFormPages == 2

----------------------------------------------------------------------------
(* Generic helpers *)

Range(s) == {s[i] : i \in 1..Len(s)}

SeqsUpTo(S, n) == UNION {[1..k -> S] : k \in 0..n}

Min(a, b) == IF a < b THEN a ELSE b

Max(a, b) == IF a > b THEN a ELSE b

----------------------------------------------------------------------------
(* URL strings and the URL class *)

Str(scheme, host, port, path, query, frag) ==
    [scheme |-> scheme, host |-> host, port |-> port, path |-> path,
     query |-> query, frag |-> frag]

\* String.prototype.toLowerCase / the URL parser's ASCII lowercasing, on the
\* tokens that occur
ToLowerCase(t) ==
    CASE t = "WWW" -> "www"
      [] t = "Example" -> "example"
      [] t = "HTTP" -> "http"
      [] OTHER -> t

LowerHost(h) == [i \in 1..Len(h) |-> ToLowerCase(h[i])]

DefaultPort(scheme) ==
    CASE scheme = "http" -> "80"
      [] scheme = "https" -> "443"
      [] OTHER -> ""

IsSpecial(scheme) == scheme \in {"http", "https"}

\* new URL(s) throws
ParseFails(s) == s.scheme = "" \/ (IsSpecial(ToLowerCase(s.scheme)) /\ s.host = <<>>)

\* new URL(s): scheme and host lowercased, default port dropped, the empty
\* path of a special scheme becomes "/"
ParseURL(s) ==
    LET scheme == ToLowerCase(s.scheme) IN
    [scheme |-> scheme,
     host |-> LowerHost(s.host),
     port |-> IF s.port = DefaultPort(scheme) THEN "" ELSE s.port,
     path |-> IF IsSpecial(scheme) /\ s.path = <<>> THEN <<"">> ELSE s.path,
     query |-> s.query,
     frag |-> s.frag]

\* url.toString() / url.href
UrlToString(u) == Str(u.scheme, u.host, u.port, u.path, u.query, u.frag)

\* url.protocol = 'https:' (a special scheme only changes to a special scheme)
SetProtocolHttps(u) ==
    IF IsSpecial(u.scheme)
    THEN [u EXCEPT !.scheme = "https",
                   !.port = IF u.port = DefaultPort("https") THEN "" ELSE u.port]
    ELSE u

\* url.pathname !== '/' && url.pathname.endsWith('/')
EndsWithSlashNotRoot(u) ==
    /\ u.path # <<"">>
    /\ Len(u.path) >= 1
    /\ u.path[Len(u.path)] = ""

\* url.pathname = url.pathname.slice(0, -1)
SlicePathname(u) == [u EXCEPT !.path = SubSeq(u.path, 1, Len(u.path) - 1)]

TrackingParams == {"utm_source", "utm_medium", "utm_campaign", "ref"}

\* url.searchParams.delete(name) for each tracking parameter
DeleteTracking(u) ==
    [u EXCEPT !.query = SelectSeq(u.query, LAMBDA k : k \notin TrackingParams)]
\* normalizeUrl without its try: the TypeError of new URL comes out
normalizeUrlUnguarded(urlString) ==
    IF ParseFails(urlString)
    THEN Str("", <<>>, "", <<"TypeError: Invalid URL">>, <<>>, "")
    ELSE
      LET u0 == SetProtocolHttps(ParseURL(urlString))
          u1 == IF EndsWithSlashNotRoot(u0) THEN SlicePathname(u0) ELSE u0
          u2 == [u1 EXCEPT !.port = ""]
          u3 == [u2 EXCEPT !.host = LowerHost(u2.host)]
          u4 == [u3 EXCEPT !.frag = ""]
          u5 == DeleteTracking(u4)
      IN UrlToString(u5)

normalizeUrl(urlString) ==
    IF ParseFails(urlString) THEN urlString
    ELSE
      LET u0 == SetProtocolHttps(ParseURL(urlString))
          u1 == IF EndsWithSlashNotRoot(u0) THEN SlicePathname(u0) ELSE u0
          u2 == [u1 EXCEPT !.port = ""]
          u3 == [u2 EXCEPT !.host = LowerHost(u2.host)]
          u4 == [u3 EXCEPT !.frag = ""]
          u5 == DeleteTracking(u4)
      IN UrlToString(u5)

\* hostname.replace(/^www\./, '')
StripWww(h) == IF Len(h) >= 2 /\ h[1] = "www" THEN Tail(h) ELSE h

\* new URL(s).hostname
Hostname(s) == ParseURL(s).host

\* url.split('#')[0]
SplitHash(s) == [s EXCEPT !.frag = ""]

----------------------------------------------------------------------------
(* The request: req.body, and what the site serves *)

EmptyString == Str("", <<>>, "", <<>>, <<>>, "")

\* max_pages: absent, or a number
NoMaxPages == [has |-> FALSE, n |-> 0]

MaxPagesOf(n) == [has |-> TRUE, n |-> n]

\* a body with every field of the README's list; an absent field reads as ""
Request(u, id, plan, m) ==
    [website_url |-> u, scan_id |-> id, customer_id |-> "CUST_1",
     plan |-> plan, max_pages |-> m]

SeedRoot == Str("HTTP", <<"Example", "com">>, "80", <<>>, <<>>, "")

SeedSlashes == Str("https", <<"example", "com">>, "", <<"b", "", "">>, <<>>, "")

SeedNoUrl == Str("", <<>>, "", <<"not a url">>, <<>>, "")

Requests ==
    { Request(SeedRoot, "SCAN_1", "essentials", MaxPagesOf(2)),
      Request(SeedRoot, "SCAN_1", "guest", NoMaxPages),
      Request(SeedRoot, "SCAN_1", "free", MaxPagesOf(1)),
      Request(SeedSlashes, "SCAN_1", "free", MaxPagesOf(2)),
      Request(SeedNoUrl, "SCAN_1", "guest", NoMaxPages),
      Request(EmptyString, "SCAN_1", "free", NoMaxPages),
      Request(SeedRoot, "", "free", NoMaxPages),
      Request(SeedRoot, "SCAN_1", "professional", MaxPagesOf(1)),
      [Request(SeedRoot, "SCAN_1", "free", MaxPagesOf(1))
          EXCEPT !.customer_id = ""],
      Request(SeedRoot, "SCAN_1", "", MaxPagesOf(1)) }

\* link.href of the anchors a page may hold, as the browser serializes them
Hrefs ==
    { Str("http", <<"www", "example", "com">>, "", <<"b", "">>, <<"ref">>, "top"),
      Str("https", <<"www", "example", "com">>, "", <<"b", "", "">>, <<>>, ""),
      Str("https", <<"other", "com">>, "", <<"b">>, <<>>, "") }

\* result.violations of axe.run, as the list of rule ids
AxeResults == { <<>>, <<"color-contrast">>, <<"image-alt", "color-contrast">> }

\* The second site the model crawls: NumChainPages pages, page k holding one
\* anchor, to page k+1, and every page holding a form and no axe violation.
NumChainPages == 11

ChainPage(k) ==
    Str("https", <<"example", "com">>, "", <<ToString(k)>>, <<>>, "")

ChainPages == { ChainPage(k) : k \in 1..NumChainPages }

ChainIndex(u) == CHOOSE k \in 1..NumChainPages : ChainPage(k) = u

ChainRequest == Request(ChainPage(1), "SCAN_1", "essentials", NoMaxPages)

\* The third site: three pages that link to each other, the home page clean,
\* the two others with one violation each, none with a form.
BasicHome == Str("https", <<"example", "com">>, "", <<"">>, <<>>, "")

BasicAbout == Str("https", <<"example", "com">>, "", <<"about">>, <<>>, "")

BasicContact == Str("https", <<"example", "com">>, "", <<"contact">>, <<>>, "")

BasicRequest == Request(BasicHome, "SCAN_1", "free", MaxPagesOf(10))

\* the requests of two handlers that run in one process, both against the
\* three-page site
FirstRequests ==
    { BasicRequest,
      Request(BasicHome, "SCAN_1", "guest", MaxPagesOf(2)) }

SecondRequest == Request(BasicHome, "SCAN_2", "essentials", MaxPagesOf(2))

BasicAnchors(u) ==
    CASE u = BasicHome -> << BasicAbout, BasicContact >>
      [] u = BasicAbout -> << BasicHome, BasicContact >>
      [] u = BasicContact -> << BasicHome >>
      [] OTHER -> <<>>

BasicAxeResult(u) ==
    CASE u = BasicAbout -> << "color-contrast" >>
      [] u = BasicContact -> << "image-alt" >>
      [] OTHER -> <<>>

\* The fourth site, crawled at level advanced: a clean home page that links
\* to two pages without a form, one with five violations and one with four.
DenseHome == Str("https", <<"example", "com">>, "", <<"">>, <<>>, "")

DenseFive == Str("https", <<"example", "com">>, "", <<"five">>, <<>>, "")

DenseFour == Str("https", <<"example", "com">>, "", <<"four">>, <<>>, "")

DenseRequest == Request(DenseHome, "SCAN_1", "essentials", MaxPagesOf(3))

DenseAnchors(u) ==
    IF u = DenseHome THEN << DenseFive, DenseFour >> ELSE << DenseHome >>

FiveRules ==
    << "color-contrast", "image-alt", "label", "heading-order", "empty-heading" >>

DenseAxeResult(u) ==
    CASE u = DenseFive -> FiveRules
      [] u = DenseFour -> SubSeq(FiveRules, 1, 4)
      [] OTHER -> <<>>

\* v.impact of a violation of rule that axe.run reports on the page at u: the
\* impact axe-core gives the rule; "" stands for an impact of null, which the
\* page DenseFour has for its color-contrast violation
AxeImpact(u, rule) ==
    CASE rule = "color-contrast" -> IF u = DenseFour THEN "" ELSE "serious"
      [] rule = "image-alt" -> "critical"
      [] rule = "label" -> "critical"
      [] rule = "heading-order" -> "moderate"
      [] rule = "empty-heading" -> "minor"
      [] OTHER -> ""

\* the impact as axe.run reported it, without a default
ImpactAsReported(impact) == impact

\* v.impact || "unknown" (line 479)
ImpactOrUnknown(impact) == IF impact = "" THEN "unknown" ELSE impact

\* the anchors page.evaluate finds on the page at u
SiteAnchors(u) ==
    CASE site = "chain" ->
           IF u \in ChainPages /\ ChainIndex(u) < NumChainPages
           THEN { << ChainPage(ChainIndex(u) + 1) >> }
           ELSE { <<>> }
      [] site = "basic" -> { BasicAnchors(u) }
      [] site = "dense" -> { DenseAnchors(u) }
      [] OTHER -> SeqsUpTo(Hrefs, MaxLinks)

\* what axe.run may report on the page at u
SiteAxeResults(u) ==
    CASE site = "chain" -> { <<>> }
      [] site = "basic" -> { BasicAxeResult(u) }
      [] site = "dense" -> { DenseAxeResult(u) }
      [] OTHER -> AxeResults

\* stats.hasForms of the page at u, on the sites other than "any"
SiteForms(u) ==
    CASE site = "chain" -> {TRUE}
      [] OTHER -> {FALSE}

----------------------------------------------------------------------------
(* Request handling before the crawl *)

DefaultPageLimit == 50

\* PageLimit as a clamp of the override to 1..50
PageLimitClamped(m) ==
    IF m.has THEN Min(Max(m.n, 1), DefaultPageLimit) ELSE DefaultPageLimit

\* max_pages && max_pages > 0 ? Math.min(max_pages, 50) : 50
PageLimit(m) ==
    IF m.has /\ m.n # 0 /\ m.n > 0 THEN Min(m.n, DefaultPageLimit)
    ELSE DefaultPageLimit

\* AiLevel with every plan but free at the full level
AiLevelPaidOrNot(plan) == IF plan = "free" THEN "none" ELSE "advanced"

\* lines 352-353
AiLevel(plan) ==
    IF plan = "free" THEN "none"
    ELSE IF plan = "guest" THEN "basic" ELSE "advanced"

NoResponse ==
    [status |-> 0, success |-> FALSE, error |-> "", error_details |-> "",
     pages_scanned |-> 0, violations |-> <<>>, total_violations |-> 0,
     critical_count |-> 0, serious_count |-> 0, moderate_count |-> 0,
     minor_count |-> 0, max_pages |-> 0,
     complianceScore |-> 0, ai_level |-> "", ai_page_analysis |-> <<>>]

ValidationFailure(msg) == [NoResponse EXCEPT !.status = 400, !.error = msg]

\* the top-level catch
FatalFailure(msg) == [NoResponse EXCEPT !.status = 500, !.error = msg]

NoExplState == [phase |-> "idle"]

NoPureState == [fn |-> "none"]

\* no second handler
NoFrame == [pc |-> "none"]

Init ==
    /\ pc = "start"
    /\ \/ req \in Requests /\ site = "any"
       \/ req = ChainRequest /\ site = "chain"
       \/ req \in FirstRequests \cup {SecondRequest} /\ site = "basic"
       \/ req = DenseRequest /\ site = "dense"
    /\ pageLimit = 0
    /\ aiLevel = ""
    /\ visited = {}
    /\ toVisit = <<>>
    /\ violations = <<>>
    /\ importantPages = <<>>
    /\ browser = "none"
    /\ openPages = 0
    /\ currentUrl = EmptyString
    /\ isImportantPage = FALSE
    /\ pageData = <<>>
    /\ result = <<>>
    /\ violationsWithExplanations = <<>>
    /\ ai_page_analysis = <<>>
    /\ analysisIndex = 0
    /\ response = NoResponse
    /\ aiCalls = <<>>
    /\ audited = {}
    /\ reaudited = {}
    /\ auditFailed = FALSE
    /\ failed = {}
    /\ discovered = {}
    /\ other = NoFrame
    /\ expl = NoExplState
    /\ pure = NoPureState

crawlVars == << visited, toVisit, violations, importantPages, currentUrl,
                isImportantPage, pageData, result >>

aiVars == << violationsWithExplanations, ai_page_analysis, analysisIndex,
            aiCalls >>

histVars == << audited, reaudited, auditFailed, failed, discovered >>

\* lines 338-361
Validate ==
    /\ pc = "start"
    /\ IF req.website_url = EmptyString
       THEN /\ response' = ValidationFailure("website_url is required")
            /\ pc' = "done"
            /\ UNCHANGED << pageLimit, aiLevel, toVisit >>
       ELSE IF req.scan_id = ""
       THEN /\ response' = ValidationFailure("scan_id is required")
            /\ pc' = "done"
            /\ UNCHANGED << pageLimit, aiLevel, toVisit >>
       ELSE /\ pageLimit' = PageLimit(req.max_pages)
            /\ aiLevel' = AiLevel(req.plan)
            /\ toVisit' = << normalizeUrl(req.website_url) >>
            /\ pc' = "launch"
            /\ UNCHANGED response
    /\ UNCHANGED << req, visited, violations, importantPages, browser, openPages,
                    currentUrl, isImportantPage, pageData, result, aiVars,
                    histVars, expl, site, pure, other >>

\* lines 365-376: await puppeteer.launch(...) returns or throws
Launch ==
    /\ pc = "launch"
    /\ \/ /\ browser' = "open"
          /\ pc' = "loop"
          /\ UNCHANGED response
       \/ /\ response' = FatalFailure("puppeteer.launch")
          /\ pc' = "done"
          /\ UNCHANGED browser
    /\ UNCHANGED << req, pageLimit, aiLevel, crawlVars, openPages, aiVars,
                    histVars, expl, site, pure, other >>

----------------------------------------------------------------------------
(* The crawl loop, lines 401-508 *)

MaxImportantPages == 10

ImportantViolationCount == 5

\* toVisit.add(u): a Set keeps insertion order and holds no duplicates
SetAdd(s, u) == IF u \in Range(s) THEN s ELSE Append(s, u)

\* getInternalLinks without the hostname filter
getInternalLinksUnfiltered(anchors, baseUrl) ==
    LET kept == SelectSeq(anchors, LAMBDA href : ~ParseFails(href))
    IN [i \in 1..Len(kept) |-> SplitHash(kept[i])]

\* getInternalLinks(page, baseUrl), lines 378-399: the anchors whose hostname
\* equals the hostname of baseUrl, both without a leading "www.", fragments cut
getInternalLinks(anchors, baseUrl) ==
    LET baseHostname == StripWww(Hostname(baseUrl))
        same(href) == ~ParseFails(href) /\ StripWww(Hostname(href)) = baseHostname
        kept == SelectSeq(anchors, same)
    IN [i \in 1..Len(kept) |-> SplitHash(kept[i])]

\* EnqueueLinks stopping after the first link
EnqueueLinksFirstOnly(pending, links, seen) ==
    IF links = <<>> \/ normalizeUrl(Head(links)) \in seen THEN pending
    ELSE SetAdd(pending, normalizeUrl(Head(links)))

\* lines 497-500: internalLinks.forEach(link => ...)
RECURSIVE EnqueueLinks(_, _, _)
EnqueueLinks(pending, links, seen) ==
    IF links = <<>> THEN pending
    ELSE LET normalizedLink == normalizeUrl(Head(links))
         IN EnqueueLinks(IF normalizedLink \notin seen
                         THEN SetAdd(pending, normalizedLink) ELSE pending,
                         Tail(links), seen)

\* line 475: scan_id.replace('SCAN_', ''), the scan id without its first
\* "SCAN_"; a string without one is left as it is
ScanIdSuffix(scanId) ==
    CASE scanId = "SCAN_1" -> "1"
      [] scanId = "SCAN_2" -> "2"
      [] OTHER -> scanId

\* a violation_id numbered by the violations of its own page
ViolationIdPerPage(list, url, scanId) ==
    << "VIO", ScanIdSuffix(scanId),
       Cardinality({i \in 1..Len(list) : list[i].page_url = url}) >>

\* line 475: `VIO_${scan_id.replace('SCAN_', '')}_${violations.length}`
ViolationId(list, url, scanId) ==
    << "VIO", ScanIdSuffix(scanId), Len(list) >>

\* lines 473-488: one record per violation of the page; the running index
\* violations.length makes the violation_id
RECURSIVE PushViolations(_, _, _, _)
PushViolations(list, rules, url, scanId) ==
    IF rules = <<>> THEN list
    ELSE PushViolations(
           Append(list, [violation_id |-> ViolationId(list, url, scanId),
                         page_url |-> url,
                         rule_id |-> Head(rules),
                         impact |-> ImpactOrUnknown(AxeImpact(url, Head(rules)))]),
           Tail(rules), url, scanId)

\* VisitedAdd that adds nothing
VisitedAddNothing(set, u) == set

\* the set a visited.add(u) leaves
VisitedAdd(set, u) == set \cup {normalizeUrl(u)}

\* PageCatch rethrowing to the top-level catch
PageCatchRethrow ==
    /\ pc' = "done"
    /\ auditFailed' = TRUE
    /\ failed' = failed \cup {currentUrl}
    /\ response' = FatalFailure("page audit")

\* the per-page catch: the error is logged, the loop goes on.  No
\* page.close() is in it.
PageCatch ==
    /\ pc' = "loop"
    /\ auditFailed' = TRUE
    /\ failed' = failed \cup {currentUrl}
    /\ UNCHANGED response

\* the steps of an audit throw on the site "any" only: the pages of the other
\* sites load and render without error
MayThrow == site = "any"

\* a step of the audit may leave its page open only within the bound
MayLeak == MayThrow /\ openPages <= MaxOpenPages

\* stats.hasForms of extractAccessibilityData, within the bound
FormChoices ==
    IF site # "any" THEN SiteForms(currentUrl)
    ELSE IF Len(importantPages) < MaxFormPages THEN BOOLEAN ELSE {FALSE}

\* on the site "any" the violation list is explored up to MaxViolations
ViolationRoom(r) == site # "any" \/ Len(violations) + Len(r) <= MaxViolations

\* the violation count test with > for >=
ManyViolationsStrict(r) == Len(r) > ImportantViolationCount

\* pageViolationCount >= 5 (line 449)
ManyViolations(r) == Len(r) >= ImportantViolationCount

\* the new snapshot put in front of the earlier ones
UnshiftSnapshot(list, entry) == << entry >> \o list

\* importantPages.push({ url, screenshot, data }) (lines 463-467)
PushSnapshot(list, entry) == Append(list, entry)

\* HasSnapshotRoom without the cap
HasSnapshotRoomAlways == TRUE

\* importantPages.length < 10 (line 454)
HasSnapshotRoom == Len(importantPages) < MaxImportantPages

\* LoopGuard with the budget test off by one
LoopGuardOffByOne == Len(toVisit) > 0 /\ Cardinality(visited) <= pageLimit

\* line 401: the condition of the while loop
LoopGuard == Len(toVisit) > 0 /\ Cardinality(visited) < pageLimit

\* lines 401-406
LoopHead ==
    /\ pc = "loop"
    /\ IF LoopGuard
       THEN /\ currentUrl' = Head(toVisit)
            /\ toVisit' = Tail(toVisit)
            /\ pc' = IF Head(toVisit) \in visited THEN "loop" ELSE "newPage"
       ELSE /\ pc' = "browserClose"
            /\ UNCHANGED << currentUrl, toVisit >>
    /\ UNCHANGED << req, pageLimit, aiLevel, visited, violations, importantPages,
                    browser, openPages, isImportantPage, pageData, result,
                    aiVars, response, histVars, expl, site, pure, other >>

\* line 409: await browser.newPage() returns a page or throws
NewPage ==
    /\ pc = "newPage"
    /\ \/ /\ openPages' = openPages + 1
          /\ pc' = "goto"
          /\ UNCHANGED << auditFailed, failed, response >>
       \/ /\ MayThrow
          /\ PageCatch
          /\ UNCHANGED openPages
    /\ UNCHANGED << req, pageLimit, aiLevel, crawlVars, browser, aiVars,
                    audited, reaudited, discovered, expl, site, pure, other >>

\* lines 410-421: setViewport and goto return or throw; goto of a string that
\* is no URL throws
Goto ==
    /\ pc = "goto"
    /\ \/ /\ ~ParseFails(currentUrl)
          /\ isImportantPage' = (Cardinality(visited) = 0)
          /\ pageData' = <<>>
          /\ pc' = IF aiLevel = "advanced" /\ Cardinality(visited) # 0
                   THEN "extract" ELSE "axe"
          /\ UNCHANGED << auditFailed, failed, response >>
       \/ /\ ParseFails(currentUrl) \/ MayLeak
          /\ PageCatch
          /\ UNCHANGED << isImportantPage, pageData >>
    /\ UNCHANGED << req, pageLimit, aiLevel, visited, toVisit, violations,
                    importantPages, browser, openPages, currentUrl, result,
                    aiVars, audited, reaudited, discovered, expl, site, pure, other >>

\* lines 424-429: await extractAccessibilityData(page) returns or throws
Extract ==
    /\ pc = "extract"
    /\ \/ /\ \E hasForms \in FormChoices :
                /\ pageData' = << [hasForms |-> hasForms] >>
                /\ isImportantPage' = hasForms
          /\ pc' = "axe"
          /\ UNCHANGED << auditFailed, failed, response >>
       \/ /\ MayLeak
          /\ PageCatch
          /\ UNCHANGED << isImportantPage, pageData >>
    /\ UNCHANGED << req, pageLimit, aiLevel, visited, toVisit, violations,
                    importantPages, browser, openPages, currentUrl, result,
                    aiVars, audited, reaudited, discovered, expl, site, pure, other >>

\* lines 432-454 and, when no snapshot is taken, 473-488: addScriptTag and
\* axe.run return or throw.  pageViolationCounts (line 446) is written here
\* and read nowhere, so it is no variable of the model.
Axe ==
    /\ pc = "axe"
    /\ \/ /\ \E r \in SiteAxeResults(currentUrl) :
                /\ ViolationRoom(r)
                /\ result' = r
                /\ LET important == isImportantPage \/
                          (aiLevel = "advanced" /\ ManyViolations(r))
                   IN /\ isImportantPage' = important
                      /\ IF aiLevel = "advanced" /\ important /\ HasSnapshotRoom
                         THEN /\ pc' = "snapshot"
                              /\ UNCHANGED violations
                         ELSE /\ pc' = "links"
                              /\ violations' = PushViolations(violations, r,
                                                   currentUrl, req.scan_id)
          /\ audited' = audited \cup {currentUrl}
          /\ reaudited' = IF currentUrl \in audited
                          THEN reaudited \cup {currentUrl} ELSE reaudited
          /\ UNCHANGED << auditFailed, failed, response >>
       \/ /\ MayLeak
          /\ PageCatch
          /\ UNCHANGED << isImportantPage, result, violations, audited, reaudited >>
    /\ UNCHANGED << req, pageLimit, aiLevel, visited, toVisit, importantPages,
                    browser, openPages, currentUrl, pageData, aiVars,
                    discovered, expl, site, pure, other >>

\* lines 455-488: extractAccessibilityData (when not yet run) and
\* page.screenshot return or throw
Snapshot ==
    /\ pc = "snapshot"
    /\ \/ /\ \E hasForms \in FormChoices :
                /\ pageData' = IF pageData = <<>>
                               THEN << [hasForms |-> hasForms] >> ELSE pageData
                /\ importantPages' = PushSnapshot(importantPages,
                                        [url |-> currentUrl, data |-> pageData'])
          /\ violations' = PushViolations(violations, result, currentUrl,
                                          req.scan_id)
          /\ pc' = "links"
          /\ UNCHANGED << auditFailed, failed, response >>
       \/ /\ MayLeak
          /\ PageCatch
          /\ UNCHANGED << pageData, importantPages, violations >>
    /\ UNCHANGED << req, pageLimit, aiLevel, visited, toVisit, browser,
                    openPages, currentUrl, isImportantPage, result, aiVars,
                    audited, reaudited, discovered, expl, site, pure, other >>

\* lines 491-502: the $$eval of getInternalLinks returns the anchors or throws
Links ==
    /\ pc = "links"
    /\ \/ /\ \E anchors \in SiteAnchors(currentUrl) :
                LET internalLinks == getInternalLinks(anchors, currentUrl)
                IN /\ toVisit' = EnqueueLinks(toVisit, internalLinks, visited)
                   /\ discovered' = discovered \cup
                         { normalizeUrl(l) : l \in Range(internalLinks) }
          /\ visited' = VisitedAdd(visited, currentUrl)
          /\ pc' = "closePage"
          /\ UNCHANGED << auditFailed, failed, response >>
       \/ /\ MayLeak
          /\ PageCatch
          /\ UNCHANGED << toVisit, visited, discovered >>
    /\ UNCHANGED << req, pageLimit, aiLevel, violations, importantPages, browser,
                    openPages, currentUrl, isImportantPage, pageData, result,
                    aiVars, audited, reaudited, expl, site, pure, other >>

\* line 503: await page.close() returns or throws
ClosePage ==
    /\ pc = "closePage"
    /\ \/ /\ openPages' = openPages - 1
          /\ pc' = "loop"
          /\ UNCHANGED << auditFailed, failed, response >>
       \/ /\ MayLeak
          /\ PageCatch
          /\ UNCHANGED openPages
    /\ UNCHANGED << req, pageLimit, aiLevel, crawlVars, browser, aiVars,
                    audited, reaudited, discovered, expl, site, pure, other >>

----------------------------------------------------------------------------
(* explainViolations, lines 62-142 *)

\* what one anthropic.messages.create call of explainViolations comes to:
\* a response holding a JSON object, a response without braces, a response
\* whose braces hold no JSON, a rejected call
CallOutcomes == {"json", "nobraces", "badjson", "rejected"}

\* Object.keys(violationsByRule): the rule ids in order of first appearance
RECURSIVE RuleOrder(_)
RuleOrder(list) ==
    IF list = <<>> THEN <<>>
    ELSE LET front == RuleOrder(SubSeq(list, 1, Len(list) - 1))
             r == list[Len(list)].rule_id
         IN IF r \in Range(front) THEN front ELSE Append(front, r)

\* the prompt built from the last violation of the rule
LastViolation(list, r) ==
    list[CHOOSE i \in 1..Len(list) :
           /\ list[i].rule_id = r
           /\ \A j \in (i + 1)..Len(list) : list[j].rule_id # r]

\* ruleViolations[0]
FirstViolation(list, r) ==
    list[CHOOSE i \in 1..Len(list) :
           /\ list[i].rule_id = r
           /\ \A j \in 1..(i - 1) : list[j].rule_id # r]

\* lines 99-111: the explanation one call yields; <<>> stands for null
Explanation(list, r, outcome) ==
    IF outcome = "json"
    THEN << [rule_id |-> r, about |-> FirstViolation(list, r).violation_id] >>
    ELSE <<>>

\* the violations that got no explanation left out of the result
OnlyExplained(list, explanations) ==
    LET kept == SelectSeq(list, LAMBDA v : explanations[v.rule_id] # <<>>)
    IN [i \in 1..Len(kept) |->
          [violation_id |-> kept[i].violation_id,
           page_url |-> kept[i].page_url,
           rule_id |-> kept[i].rule_id,
           impact |-> kept[i].impact,
           ai_explanation |-> explanations[kept[i].rule_id]]]

\* lines 124-136: explanationMap[v.rule_id] || null on every violation
WithExplanations(list, explanations) ==
    [i \in 1..Len(list) |->
        [violation_id |-> list[i].violation_id,
         page_url |-> list[i].page_url,
         rule_id |-> list[i].rule_id,
         impact |-> list[i].impact,
         ai_explanation |-> explanations[list[i].rule_id]]]

\* explainViolations giving up on every rule when one call is rejected
explainViolationsAllOrNothing(list, outcomes) ==
    IF Len(list) = 0 THEN <<>>
    ELSE WithExplanations(list,
            [r \in Range(RuleOrder(list)) |->
                IF \E q \in Range(RuleOrder(list)) : outcomes[q] = "rejected"
                THEN <<>> ELSE Explanation(list, r, outcomes[r])])

\* explainViolations(list) when the call of rule r comes to outcomes[r]
explainViolations(list, outcomes) ==
    IF Len(list) = 0 THEN <<>>
    ELSE WithExplanations(list,
            [r \in Range(RuleOrder(list)) |-> Explanation(list, r, outcomes[r])])

\* what the calls of one run of explainViolations may come to: any outcome
\* each for up to MaxExplainInput rule ids, one outcome for all beyond that
ExplainOutcomes(rules) ==
    IF Cardinality(rules) <= MaxExplainInput
    THEN [rules -> CallOutcomes]
    ELSE { [r \in rules |-> o] : o \in CallOutcomes }

\* the AI calls of explainViolations, one per rule id
ExplainCalls(list, outcomes) ==
    LET order == RuleOrder(list)
    IN [k \in 1..Len(order) |->
          [kind |-> "explain", rule |-> order[k], page |-> EmptyString,
           outcome |-> outcomes[order[k]]]]

----------------------------------------------------------------------------
(* After the loop, lines 510-617 *)

UnreachableFailure ==
    [NoResponse EXCEPT !.status = 400,
                       !.error = "Unable to access website",
                       !.error_details = "The website could not be reached.",
                       !.pages_scanned = 0]

\* ComplianceScore without the floor at 0
ComplianceScoreUnclamped(n) == 100 - n * 5

\* line 575
ComplianceScore(n) == Max(0, 100 - n * 5)

\* violations.filter(v => v.impact === level).length (lines 584-587)
ImpactCount(list, level) ==
    Cardinality({i \in 1..Len(list) : list[i].impact = level})

SuccessResponse ==
    [status |-> 200, success |-> TRUE, error |-> "", error_details |-> "",
     pages_scanned |-> Cardinality(visited),
     violations |-> violationsWithExplanations,
     total_violations |-> Len(violations),
     critical_count |-> ImpactCount(violations, "critical"),
     serious_count |-> ImpactCount(violations, "serious"),
     moderate_count |-> ImpactCount(violations, "moderate"),
     minor_count |-> ImpactCount(violations, "minor"),
     max_pages |-> pageLimit,
     complianceScore |-> ComplianceScore(Len(violations)),
     ai_level |-> aiLevel,
     ai_page_analysis |-> ai_page_analysis]

\* BrowserClosed without the call of browser.close()
BrowserLeftOpen == "open"

\* line 510: what await browser.close() makes of the browser
BrowserClosed == "closed"

\* line 510: await browser.close() ends the browser; the call returns or throws
BrowserClose ==
    /\ pc = "browserClose"
    /\ browser' = BrowserClosed
    /\ \/ /\ pc' = "enrich"
          /\ violationsWithExplanations' = violations
          /\ UNCHANGED response
       \/ /\ response' = FatalFailure("browser.close")
          /\ pc' = "done"
          /\ UNCHANGED violationsWithExplanations
    /\ UNCHANGED << req, pageLimit, aiLevel, crawlVars, openPages,
                    ai_page_analysis, analysisIndex, aiCalls, histVars, expl, site, pure, other >>

\* ExplainsViolations without the test of the level
ExplainsViolationsAtAnyLevel == Len(violations) > 0

\* whether the handler calls explainViolations, lines 518-520 and 550
ExplainsViolations ==
    /\ aiLevel \in {"advanced", "basic"}
    /\ Len(violations) > 0

\* whether the handler runs the deep analysis loop, lines 518 and 527
AnalysesPages == aiLevel = "advanced" /\ Len(importantPages) > 0

\* lines 518-524 and 550-555: await explainViolations(violations); each of its
\* AI calls comes to any outcome
Explain ==
    /\ pc = "enrich"
    /\ IF ExplainsViolations
       THEN \E outcomes \in ExplainOutcomes(Range(RuleOrder(violations))) :
                 /\ violationsWithExplanations' =
                       explainViolations(violations, outcomes)
                 /\ aiCalls' = aiCalls \o ExplainCalls(violations, outcomes)
       ELSE UNCHANGED << violationsWithExplanations, aiCalls >>
    /\ pc' = IF AnalysesPages THEN "analyze" ELSE "respond"
    /\ UNCHANGED << req, pageLimit, aiLevel, crawlVars, browser, openPages,
                    ai_page_analysis, analysisIndex, response, histVars, expl, site, pure, other >>

\* the loop giving up on the pages left when an analysis is null
AnalysisIndexAbortingOnNull(i, analysis) ==
    IF analysis = "null" THEN Len(importantPages) ELSE i + 1

\* line 528: i++, whatever runAdvancedAIAnalysis returned
NextAnalysisIndex(i, analysis) == i + 1

\* lines 528-546: one pass of the deep analysis loop, the delay of lines
\* 532-534 included; runAdvancedAIAnalysis returns an analysis or null
Analyze ==
    /\ pc = "analyze"
    /\ IF analysisIndex < Len(importantPages)
       THEN /\ \E analysis \in {"analysis", "null"} :
                 /\ ai_page_analysis' =
                       IF analysis # "null"
                       THEN Append(ai_page_analysis,
                              [page_url |-> importantPages[analysisIndex + 1].url,
                               analysis |-> analysis])
                       ELSE ai_page_analysis
                 /\ aiCalls' = Append(aiCalls,
                       [kind |-> "analyze", rule |-> "",
                        page |-> importantPages[analysisIndex + 1].url,
                        outcome |-> analysis])
                 /\ analysisIndex' = NextAnalysisIndex(analysisIndex, analysis)
            /\ UNCHANGED pc
       ELSE /\ pc' = "respond"
            /\ UNCHANGED << ai_page_analysis, aiCalls, analysisIndex >>
    /\ UNCHANGED << req, pageLimit, aiLevel, crawlVars, browser, openPages,
                    violationsWithExplanations, response, histVars, expl, site, pure, other >>

\* NoPageScanned testing the violation list as well
NoPageScannedNorViolation == Cardinality(visited) = 0 /\ Len(violations) = 0

\* line 560: no page was scanned
NoPageScanned == Cardinality(visited) = 0

\* lines 557-606
Respond ==
    /\ pc = "respond"
    /\ response' = IF NoPageScanned THEN UnreachableFailure
                   ELSE SuccessResponse
    /\ pc' = "done"
    /\ UNCHANGED << req, pageLimit, aiLevel, crawlVars, browser, openPages,
                    aiVars, histVars, expl, site, pure, other >>

Next ==
    \/ Validate
    \/ Launch
    \/ LoopHead
    \/ NewPage
    \/ Goto
    \/ Extract
    \/ Axe
    \/ Snapshot
    \/ Links
    \/ ClosePage
    \/ BrowserClose
    \/ Explain
    \/ Analyze
    \/ Respond

Spec == Init /\ [][Next]_vars

\* the handler against the site "any", whose pages may hold any anchors
InitLive == Init /\ site = "any"

\* the handler runs as long as its awaited calls return or throw
LiveSpec == InitLive /\ [][Next]_vars /\ WF_vars(Next)

----------------------------------------------------------------------------
(* One run of explainViolations, lines 62-142, with its promises.           *)
(* expl.calls[r] is the state of the anthropic.messages.create call of rule *)
(* r: "inFlight" from the moment the call is issued until it settles, then   *)
(* what it came to.                                                          *)

Rules == {"color-contrast", "image-alt", "label"}

ExplainInputs ==
    { PushViolations(<<>>, rules, SeedRoot, "SCAN_1") :
        rules \in SeqsUpTo(Rules, MaxExplainInput) }

InFlight(e) == {r \in DOMAIN e.calls : e.calls[r] = "inFlight"}

InitExplain ==
    /\ pc = "explainViolations"
    /\ req = Request(SeedRoot, "SCAN_1", "guest", NoMaxPages)
    /\ pageLimit = 0
    /\ aiLevel = ""
    /\ visited = {}
    /\ toVisit = <<>>
    /\ violations = <<>>
    /\ importantPages = <<>>
    /\ browser = "none"
    /\ openPages = 0
    /\ currentUrl = EmptyString
    /\ isImportantPage = FALSE
    /\ pageData = <<>>
    /\ result = <<>>
    /\ violationsWithExplanations = <<>>
    /\ ai_page_analysis = <<>>
    /\ analysisIndex = 0
    /\ response = NoResponse
    /\ aiCalls = <<>>
    /\ audited = {}
    /\ reaudited = {}
    /\ auditFailed = FALSE
    /\ failed = {}
    /\ discovered = {}
    /\ other = NoFrame
    /\ \E list \in ExplainInputs :
          expl = [phase |-> "called", list |-> list,
                  calls |-> [r \in {} |-> ""], i |-> 0,
                  explanations |-> <<>>, out |-> <<>>]
    /\ site = "any"
    /\ pure = NoPureState

mainVars == << pc, req, pageLimit, aiLevel, crawlVars, browser, openPages,
               aiVars, response, histVars, site, other >>

\* lines 63-112: the early return, the grouping, and the map over the rule
\* ids, which runs every async callback up to its await: every call is issued
ExStart ==
    /\ expl.phase = "called"
    /\ IF Len(expl.list) = 0
       THEN expl' = [expl EXCEPT !.phase = "returned", !.out = <<>>]
       ELSE expl' = [expl EXCEPT
                        !.phase = "await",
                        !.calls = [r \in Range(RuleOrder(expl.list)) |-> "inFlight"]]
    /\ UNCHANGED << mainVars, pure >>

\* lines 90-111: a call settles; its callback returns { ruleId, explanation }
ExCallSettles ==
    /\ \E r \in InFlight(expl), outcome \in CallOutcomes :
          expl' = [expl EXCEPT !.calls[r] = outcome]
    /\ UNCHANGED << mainVars, pure >>

\* line 119: the 500ms timer fires
ExDelay ==
    /\ expl.phase = "delay"
    /\ expl' = [expl EXCEPT !.phase = "await"]
    /\ UNCHANGED << mainVars, pure >>

\* lines 116-122: await explanationPromises[i] resumes once that promise is
\* settled
ExAwait ==
    /\ expl.phase = "await"
    /\ LET order == RuleOrder(expl.list)
           r == order[expl.i + 1]
       IN /\ expl.calls[r] # "inFlight"
          /\ expl' = [expl EXCEPT
                        !.explanations = Append(@,
                            [ruleId |-> r,
                             explanation |-> Explanation(expl.list, r, expl.calls[r])]),
                        !.i = @ + 1,
                        !.phase = IF expl.i + 1 < Len(order) THEN "delay" ELSE "map"]
    /\ UNCHANGED << mainVars, pure >>

\* lines 124-136
ExReturn ==
    /\ expl.phase = "map"
    /\ expl' = [expl EXCEPT
                  !.phase = "returned",
                  !.out = WithExplanations(expl.list,
                            [r \in Range(RuleOrder(expl.list)) |->
                               Explanation(expl.list, r, expl.calls[r])])]
    /\ UNCHANGED << mainVars, pure >>

NextExplain ==
    \/ ExStart
    \/ ExCallSettles
    \/ ExDelay
    \/ ExAwait
    \/ ExReturn

SpecExplain == InitExplain /\ [][NextExplain]_vars

----------------------------------------------------------------------------
(* Parsing of an AI response, lines 99-107 and 194-226.  A response text is   *)
(* a sequence of tokens: an opening brace, a closing brace, "FENCE_JSON" for *)
(* three backquotes followed by json, "FENCE" for three backquotes, or "x"   *)
(* for any run of other characters that JSON admits between the braces of an *)
(* object; white space is left out.                                          *)

Tokens == {"{", "}", "FENCE_JSON", "FENCE", "x"}

Fences == {"FENCE_JSON", "FENCE"}

\* the place of the first token of toks in text at or after from; 0 if none
FirstIndex(text, toks, from) ==
    IF \E i \in from..Len(text) : text[i] \in toks
    THEN CHOOSE i \in from..Len(text) :
            /\ text[i] \in toks
            /\ \A j \in from..(i - 1) : text[j] \notin toks
    ELSE 0

\* the place of the last token of toks in text; 0 if none
LastIndex(text, toks) ==
    IF \E i \in 1..Len(text) : text[i] \in toks
    THEN CHOOSE i \in 1..Len(text) :
            /\ text[i] \in toks
            /\ \A j \in (i + 1)..Len(text) : text[j] \notin toks
    ELSE 0

\* text.match of a fence pattern (lines 200, 205): the group of the leftmost
\* match, from the opening fence up to the nearest three backquotes, which a
\* json fence begins with too; << >> when nothing matches
FenceMatch(text, open) ==
    LET closes(i) == FirstIndex(text, Fences, i + 1)
        starts == {i \in 1..Len(text) : text[i] \in open /\ closes(i) # 0}
    IN IF starts = {} THEN << >>
       ELSE LET i == CHOOSE k \in starts : \A l \in starts : k <= l
            IN << SubSeq(text, i + 1, closes(i) - 1) >>

\* lines 197-209: the text the braces are looked for in
JsonText(responseText) ==
    IF "FENCE_JSON" \in Range(responseText)
    THEN LET jsonMatch == FenceMatch(responseText, {"FENCE_JSON"})
         IN IF jsonMatch # << >> THEN jsonMatch[1] ELSE responseText
    ELSE IF "FENCE" \in Range(responseText)
    THEN LET codeMatch == FenceMatch(responseText, {"FENCE"})
         IN IF codeMatch # << >> THEN codeMatch[1] ELSE responseText
    ELSE responseText

\* text.match(/\{[\s\S]*\}/): from the first opening brace to the last
\* closing brace after it; << >> when nothing matches
BraceMatch(text) ==
    LET first == FirstIndex(text, {"{"}, 1)
        last == LastIndex(text, {"}"})
    IN IF first = 0 \/ last < first THEN << >>
       ELSE << SubSeq(text, first, last) >>

\* the nesting depth after the first n tokens of span
RECURSIVE Depth(_, _)
Depth(span, n) ==
    IF n = 0 THEN 0
    ELSE Depth(span, n - 1)
           + (IF span[n] = "{" THEN 1 ELSE IF span[n] = "}" THEN 0 - 1 ELSE 0)

\* JSON.parse(span) returns: span is one object, its braces balanced and
\* closed by its last token only, with no backquote in it
IsJsonObject(span) ==
    /\ Len(span) >= 2
    /\ span[1] = "{"
    /\ \A n \in 1..(Len(span) - 1) : Depth(span, n) > 0
    /\ Depth(span, Len(span)) = 0
    /\ \A n \in 1..Len(span) : span[n] \notin Fences

\* lines 194-226: what runAdvancedAIAnalysis returns for a response text
ParseAnalysis(responseText) ==
    LET jsonMatch == BraceMatch(JsonText(responseText))
    IN IF jsonMatch # << >>
       THEN IF IsJsonObject(jsonMatch[1])
            THEN [kind |-> "parsed", value |-> jsonMatch[1]]
            ELSE [kind |-> "parseError", value |-> << >>]
       ELSE [kind |-> "summary", value |-> responseText]

\* lines 99-110: the explanation of one call of explainViolations for a
\* response text; JSON.parse throwing lands in the catch, which gives null
ParseExplanation(responseText) ==
    LET jsonMatch == BraceMatch(responseText)
    IN IF jsonMatch # << >> /\ IsJsonObject(jsonMatch[1])
       THEN [kind |-> "parsed", value |-> jsonMatch[1]]
       ELSE [kind |-> "null", value |-> << >>]

----------------------------------------------------------------------------
(* The pure functions of the handler, applied to inputs of their own:         *)
(* normalizeUrl (lines 310-334), the page limit (line 349), the compliance   *)
(* score (line 575) and the parsing of an AI response.  pure.in is the       *)
(* argument and pure.out the results so far; normalizeUrl is applied to its  *)
(* own result a second time.                                                 *)

\* a response text runs up to this number of tokens
MaxResponseLen == 5

ResponseTexts == SeqsUpTo(Tokens, MaxResponseLen)

\* violations.length runs up to this number
MaxViolationCount == 25

\* max_pages runs from -MaxOverrideExcess to DefaultPageLimit + MaxOverrideExcess
MaxOverrideExcess == 3

\* "mailto:a": a URL that parses, of a scheme that is not special
MailtoUrl == Str("mailto", <<>>, "", <<"a">>, <<>>, "")

UrlInputs ==
    { Str(scheme, host, port, path, query, frag) :
        scheme \in {"http", "https", "HTTP"},
        host \in { <<"example", "com">>, <<"WWW", "Example", "com">> },
        port \in {"", "80", "8080"},
        path \in { <<>>, <<"">>, <<"a">>, <<"a", "">>, <<"a", "", "">> },
        query \in { <<>>, <<"ref">>, <<"q", "utm_source">> },
        frag \in {"", "top"} }
    \cup { SeedNoUrl, EmptyString, MailtoUrl }

MaxPagesInputs ==
    { NoMaxPages } \cup
    { MaxPagesOf(n) :
        n \in (0 - MaxOverrideExcess)..(DefaultPageLimit + MaxOverrideExcess) }

PureCall(fn, in) == [fn |-> fn, in |-> in, out |-> <<>>]

InitPure ==
    /\ pc = "pure"
    /\ req = Request(EmptyString, "", "", NoMaxPages)
    /\ pageLimit = 0
    /\ aiLevel = ""
    /\ visited = {}
    /\ toVisit = <<>>
    /\ violations = <<>>
    /\ importantPages = <<>>
    /\ browser = "none"
    /\ openPages = 0
    /\ currentUrl = EmptyString
    /\ isImportantPage = FALSE
    /\ pageData = <<>>
    /\ result = <<>>
    /\ violationsWithExplanations = <<>>
    /\ ai_page_analysis = <<>>
    /\ analysisIndex = 0
    /\ response = NoResponse
    /\ aiCalls = <<>>
    /\ audited = {}
    /\ reaudited = {}
    /\ auditFailed = FALSE
    /\ failed = {}
    /\ discovered = {}
    /\ other = NoFrame
    /\ expl = NoExplState
    /\ site = "any"
    /\ \/ \E u \in UrlInputs : pure = PureCall("normalizeUrl", u)
       \/ \E m \in MaxPagesInputs : pure = PureCall("pageLimit", m)
       \/ \E n \in 0..MaxViolationCount : pure = PureCall("complianceScore", n)
       \/ \E t \in ResponseTexts, fn \in {"parseAnalysis", "parseExplanation"} :
             pure = PureCall(fn, t)

\* normalizeUrl(u), then normalizeUrl of that result
ApplyNormalizeUrl ==
    /\ pure.fn = "normalizeUrl"
    /\ Len(pure.out) < 2
    /\ LET arg == IF pure.out = <<>> THEN pure.in ELSE pure.out[Len(pure.out)]
       IN pure' = [pure EXCEPT !.out = Append(@, normalizeUrl(arg))]
    /\ UNCHANGED << mainVars, expl >>

\* line 349
ApplyPageLimit ==
    /\ pure.fn = "pageLimit"
    /\ pure.out = <<>>
    /\ pure' = [pure EXCEPT !.out = << PageLimit(pure.in) >>]
    /\ UNCHANGED << mainVars, expl >>

\* line 575, with violations.length = pure.in
ApplyComplianceScore ==
    /\ pure.fn = "complianceScore"
    /\ pure.out = <<>>
    /\ pure' = [pure EXCEPT !.out = << ComplianceScore(pure.in) >>]
    /\ UNCHANGED << mainVars, expl >>

\* lines 194-226
ApplyParseAnalysis ==
    /\ pure.fn = "parseAnalysis"
    /\ pure.out = <<>>
    /\ pure' = [pure EXCEPT !.out = << ParseAnalysis(pure.in) >>]
    /\ UNCHANGED << mainVars, expl >>

\* lines 99-110
ApplyParseExplanation ==
    /\ pure.fn = "parseExplanation"
    /\ pure.out = <<>>
    /\ pure' = [pure EXCEPT !.out = << ParseExplanation(pure.in) >>]
    /\ UNCHANGED << mainVars, expl >>

NextPure ==
    \/ ApplyNormalizeUrl
    \/ ApplyPageLimit
    \/ ApplyComplianceScore
    \/ ApplyParseAnalysis
    \/ ApplyParseExplanation

SpecPure == InitPure /\ [][NextPure]_vars

----------------------------------------------------------------------------
(* Two invocations of the handler in one process.  Node runs one handler at  *)
(* a time and changes handler at an await; the variables of the model are    *)
(* the frame of the running handler and other is the frame of the suspended  *)
(* one.  Everything the handler declares (lines 338-362, 365, 513-514) is in  *)
(* its frame; the module-level axeCoreScript and anthropic (lines 10, 16) are *)
(* never assigned.                                                            *)

\* the frame of the running handler
Frame ==
    [pc |-> pc, req |-> req, pageLimit |-> pageLimit, aiLevel |-> aiLevel,
     visited |-> visited, toVisit |-> toVisit, violations |-> violations,
     importantPages |-> importantPages, browser |-> browser,
     openPages |-> openPages, currentUrl |-> currentUrl,
     isImportantPage |-> isImportantPage, pageData |-> pageData,
     result |-> result,
     violationsWithExplanations |-> violationsWithExplanations,
     ai_page_analysis |-> ai_page_analysis, analysisIndex |-> analysisIndex,
     response |-> response, aiCalls |-> aiCalls, audited |-> audited,
     reaudited |-> reaudited, auditFailed |-> auditFailed, failed |-> failed,
     discovered |-> discovered]

\* the frame of a handler whose request has just arrived
StartFrame(r) ==
    [pc |-> "start", req |-> r, pageLimit |-> 0, aiLevel |-> "",
     visited |-> {}, toVisit |-> <<>>, violations |-> <<>>,
     importantPages |-> <<>>, browser |-> "none", openPages |-> 0,
     currentUrl |-> EmptyString, isImportantPage |-> FALSE, pageData |-> <<>>,
     result |-> <<>>, violationsWithExplanations |-> <<>>,
     ai_page_analysis |-> <<>>, analysisIndex |-> 0, response |-> NoResponse,
     aiCalls |-> <<>>, audited |-> {}, reaudited |-> {}, auditFailed |-> FALSE,
     failed |-> {}, discovered |-> {}]

InitTwo ==
    /\ pc = "start"
    /\ req \in FirstRequests
    /\ site = "basic"
    /\ pageLimit = 0
    /\ aiLevel = ""
    /\ visited = {}
    /\ toVisit = <<>>
    /\ violations = <<>>
    /\ importantPages = <<>>
    /\ browser = "none"
    /\ openPages = 0
    /\ currentUrl = EmptyString
    /\ isImportantPage = FALSE
    /\ pageData = <<>>
    /\ result = <<>>
    /\ violationsWithExplanations = <<>>
    /\ ai_page_analysis = <<>>
    /\ analysisIndex = 0
    /\ response = NoResponse
    /\ aiCalls = <<>>
    /\ audited = {}
    /\ reaudited = {}
    /\ auditFailed = FALSE
    /\ failed = {}
    /\ discovered = {}
    /\ expl = NoExplState
    /\ pure = NoPureState
    /\ other = StartFrame(SecondRequest)

\* the visited set of a resumed handler, were visited a module-level Set
ModuleLevelVisited(own, live) == live

\* line 355: const visited = new Set() is evaluated in the handler, so a
\* resumed handler finds its own set whatever the other handler did
ResumedVisited(own, live) == own

\* the running handler is suspended at an await and the other one resumes
Switch ==
    /\ other # NoFrame
    /\ other.pc # "done"
    /\ other' = Frame
    /\ pc' = other.pc
    /\ req' = other.req
    /\ pageLimit' = other.pageLimit
    /\ aiLevel' = other.aiLevel
    /\ visited' = ResumedVisited(other.visited, visited)
    /\ toVisit' = other.toVisit
    /\ violations' = other.violations
    /\ importantPages' = other.importantPages
    /\ browser' = other.browser
    /\ openPages' = other.openPages
    /\ currentUrl' = other.currentUrl
    /\ isImportantPage' = other.isImportantPage
    /\ pageData' = other.pageData
    /\ result' = other.result
    /\ violationsWithExplanations' = other.violationsWithExplanations
    /\ ai_page_analysis' = other.ai_page_analysis
    /\ analysisIndex' = other.analysisIndex
    /\ response' = other.response
    /\ aiCalls' = other.aiCalls
    /\ audited' = other.audited
    /\ reaudited' = other.reaudited
    /\ auditFailed' = other.auditFailed
    /\ failed' = other.failed
    /\ discovered' = other.discovered
    /\ UNCHANGED << expl, site, pure >>

NextTwo == Next \/ Switch

SpecTwo == InitTwo /\ [][NextTwo]_vars

----------------------------------------------------------------------------
(* Properties of the crawl (Spec, LiveSpec) *)

\* C1: in every reachable state the visited set holds at most pageLimit URLs
C1_VisitedWithinBudget == Cardinality(visited) <= pageLimit

\* the budget is reached with URLs still pending, after a failed audit
C1_Witness ==
    /\ pc = "browserClose"
    /\ pageLimit >= 2
    /\ Cardinality(visited) = pageLimit
    /\ Len(toVisit) > 0
    /\ auditFailed

\* C2: the crawl loop eventually exits and the handler finishes, provided
\* each awaited call returns or throws (checked under LiveSpec)
C2_CrawlTerminates == <>(pc = "done")

\* C3: within one scan no URL goes through the accessibility audit more than
\* once
C3_AuditedAtMostOnce == reaudited = {}

\* whether a pending or dequeued URL u is of the seed's site
SameSite(u) ==
    IF ParseFails(req.website_url) THEN u = req.website_url
    ELSE /\ ~ParseFails(u)
         /\ StripWww(Hostname(u)) = StripWww(Hostname(req.website_url))

\* C4: every URL of the pending set has the seed's host, both taken without
\* one leading "www."
C4_OriginFilter == \A k \in 1..Len(toVisit) : SameSite(toVisit[k])

\* a link whose host differs from the seed's by "www." has been enqueued
C4_Witness ==
    /\ pc = "closePage"
    /\ \E k \in 1..Len(toVisit) :
          Hostname(toVisit[k]) # Hostname(req.website_url)

\* C5: a success response has pages_scanned >= 1, and a handler that finishes
\* its crawl with nothing visited answers with the unreachable-site failure
C5_UnreachableIsNoSuccess ==
    pc = "done" =>
       /\ response.success =>
             /\ response.pages_scanned >= 1
             /\ response.pages_scanned = Cardinality(visited)
       /\ (visited = {} /\ browser = "closed" /\ response.status # 500) =>
             /\ response.success = FALSE
             /\ response.status = 400
             /\ response.pages_scanned = 0
             /\ response.error_details # ""

\* every audit of the scan failed and the handler has answered
C5_Witness ==
    /\ pc = "done"
    /\ visited = {}
    /\ auditFailed
    /\ audited # {}
    /\ response = UnreachableFailure

\* C6: after a failed page audit the loop still runs until its guard fails,
\* and the handler answers with success or unreachable-site: the generic
\* failure is never the answer to an error of a page audit
C6_AuditFailureIsolated ==
    /\ pc \in {"browserClose", "enrich", "analyze", "respond"} => ~LoopGuard
    /\ (pc = "done" /\ auditFailed) =>
          \/ response.status = 200 /\ response.success
          \/ response = UnreachableFailure
          \/ response = FatalFailure("browser.close")

\* an audit failed, later URLs were audited and the scan succeeded
C6_Witness ==
    /\ pc = "done"
    /\ auditFailed
    /\ response.success
    /\ response.pages_scanned >= 2

ExplainRan == \E k \in 1..Len(aiCalls) : aiCalls[k].kind = "explain"

\* what the explanation call of rule r came to
OutcomeOf(r) ==
    aiCalls[CHOOSE k \in 1..Len(aiCalls) :
               aiCalls[k].kind = "explain" /\ aiCalls[k].rule = r].outcome

\* C7: a violation has ai_explanation null exactly when the call of its own
\* rule id failed or brought no JSON, whatever the calls of the other rule
\* ids came to, and the response is the success response whenever a page was
\* visited
C7_ExplainIsolation ==
    ExplainRan =>
       /\ Len(violationsWithExplanations) = Len(violations)
       /\ \A k \in 1..Len(violations) :
             LET v == violationsWithExplanations[k]
             IN /\ v.rule_id = violations[k].rule_id
                /\ v.ai_explanation =
                     IF OutcomeOf(v.rule_id) = "json"
                     THEN << [rule_id |-> v.rule_id,
                              about |-> FirstViolation(violations,
                                           v.rule_id).violation_id] >>
                     ELSE <<>>
       /\ pc = "done" =>
             /\ response.status # 500
             /\ response.success = (visited # {})
             /\ response.success => response.violations = violationsWithExplanations

\* one rule's call was rejected, another rule's violations are explained,
\* and the scan succeeded
C7_Witness ==
    /\ pc = "done"
    /\ ExplainRan
    /\ response.success
    /\ \E k \in 1..Len(aiCalls) : aiCalls[k].outcome = "rejected"
    /\ \E i, j \in 1..Len(response.violations) :
          /\ response.violations[i].ai_explanation = <<>>
          /\ response.violations[j].ai_explanation # <<>>

\* C9: when the loop is about to dequeue the next URL, every page opened by
\* browser.newPage() has been closed
C9_PageClosedBeforeNextUrl == pc = "loop" => openPages = 0

\* C10: a handler that launched the browser and has finished has closed it
C10_BrowserClosed == (pc = "done" /\ browser # "none") => browser = "closed"

\* the handler finished by budget exhaustion, the browser closed
C10_Witness ==
    /\ pc = "done"
    /\ browser = "closed"
    /\ response.success
    /\ Len(toVisit) > 0

----------------------------------------------------------------------------
(* Properties of explainViolations (SpecExplain) *)

\* C8: at most one explanation call is in flight at any time
C8_OneCallInFlight == Cardinality(InFlight(expl)) <= 1

----------------------------------------------------------------------------
(* Properties of enrichment, scoring and request handling *)

\* C11: a scan that ends in the unreachable-site failure has issued no AI
\* call, neither an explanation call nor a deep page analysis call.
C11_NoAiCallWhenUnreachable ==
    (pc = "done" /\ response = UnreachableFailure) => aiCalls = <<>>

AnalyzeCalls == SelectSeq(aiCalls, LAMBDA c : c.kind = "analyze")

\* C13: a scan captures at most 10 page snapshots, however many pages
\* qualify, and issues at most 10 deep page analysis calls.
C13_SnapshotCap ==
    /\ Len(importantPages) <= 10
    /\ Len(AnalyzeCalls) <= 10

\* ten snapshots were captured and analysed, and an eleventh page, which
\* holds a form as well, was audited without a snapshot
C13_Witness ==
    /\ pc = "done"
    /\ response.success
    /\ Len(importantPages) = 10
    /\ Len(AnalyzeCalls) = 10
    /\ Cardinality(visited) > 10
    /\ isImportantPage

\* the README's required fields that the claim names
LacksRequiredField(r) ==
    \/ r.website_url = EmptyString
    \/ r.scan_id = ""
    \/ r.customer_id = ""
    \/ r.plan = ""

\* C16: a request that lacks a required field (site URL, scan id, customer
\* id, plan tier) gets a validation failure, and neither is the browser
\* launched nor a page audited for it.
C16_MissingFieldRejected ==
    LacksRequiredField(req) =>
        /\ browser = "none"
        /\ audited = {}
        /\ pc = "done" => response.status = 400 /\ ~response.success

\* the documented table of plans and levels
LevelOfPlan ==
    [free |-> "none", guest |-> "basic", essentials |-> "advanced",
     professional |-> "advanced"]

\* C18: free maps to level none, guest to basic, essentials and professional
\* to advanced; that level is the one the handler works with and the ai_level
\* of its success response.
C18_PlanMapsToLevel ==
    req.plan \in DOMAIN LevelOfPlan =>
        /\ browser # "none" => aiLevel = LevelOfPlan[req.plan]
        /\ response.success => response.ai_level = LevelOfPlan[req.plan]

C18_Witness ==
    /\ pc = "done"
    /\ req.plan = "professional"
    /\ response.success
    /\ response.ai_level = "advanced"

HasExplanationField(v) == "ai_explanation" \in DOMAIN v

\* C19: at level none no AI call is issued and no violation carries an
\* ai_explanation field; at level basic every AI call is an explanation call
\* and the deep-analysis list is empty; a deep page analysis call is issued
\* at level advanced only.
C19_EnrichmentGatedByLevel ==
    /\ aiLevel = "none" =>
          /\ aiCalls = <<>>
          /\ \A v \in Range(violationsWithExplanations) : ~HasExplanationField(v)
          /\ \A v \in Range(response.violations) : ~HasExplanationField(v)
    /\ aiLevel = "basic" =>
          /\ \A c \in Range(aiCalls) : c.kind = "explain"
          /\ ai_page_analysis = <<>>
          /\ response.ai_page_analysis = <<>>
    /\ AnalyzeCalls # <<>> => aiLevel = "advanced"

\* a scan at level none that found violations has answered
C19_Witness ==
    /\ pc = "done"
    /\ aiLevel = "none"
    /\ response.success
    /\ Len(response.violations) > 0

\* C20: every request eventually gets a response
C20_EventuallyResponds == <>(response.status # 0)

----------------------------------------------------------------------------
(* Properties of the pure functions (SpecPure) *)

\* C14: normalizeUrl is idempotent: for every URL that parses, also one whose
\* path ends in more than one slash, normalizing the result again returns it
\* unchanged.
C14_NormalizeIdempotent ==
    (pure.fn = "normalizeUrl" /\ Len(pure.out) = 2 /\ ~ParseFails(pure.in)) =>
        pure.out[2] = pure.out[1]

UpperWwwSlash ==
    Str("http", <<"WWW", "Example", "com">>, "", <<"a", "">>, <<>>, "")

HttpsBare == Str("https", <<"example", "com">>, "", <<"a">>, <<>>, "")

\* C15: normalizeUrl("http://WWW.Example.com/a/") is
\* normalizeUrl("https://example.com/a"): scheme, host letter case, a leading
\* "www." label and a trailing slash do not change the canonical form.
C15_NormalizeEquivalence ==
    (pure.fn = "normalizeUrl" /\ pure.in = UpperWwwSlash /\ Len(pure.out) >= 1) =>
        pure.out[1] = normalizeUrl(HttpsBare)

\* C17 as stated: the page budget is the override m clamped to 1..50, that is
\* min(max(m, 1), 50) for every integer m, and 50 without an override.
C17_BudgetIsClamp ==
    (pure.fn = "pageLimit" /\ pure.out # <<>>) =>
        pure.out[1] = IF pure.in.has
                      THEN (IF pure.in.n < 1 THEN 1
                            ELSE IF pure.in.n > 50 THEN 50 ELSE pure.in.n)
                      ELSE 50

\* C17: the page budget is min(m, 50) for an integer override m >= 1, and 50
\* for an override of 0 or less and without an override; it always lies in
\* 1..50.
C17_BudgetOfOverride ==
    (pure.fn = "pageLimit" /\ pure.out # <<>>) =>
        /\ pure.out[1] \in 1..50
        /\ pure.out[1] = IF pure.in.has /\ pure.in.n >= 1
                         THEN (IF pure.in.n > 50 THEN 50 ELSE pure.in.n)
                         ELSE 50

\* an override below 1 gave the default budget
C17_Witness ==
    /\ pure.fn = "pageLimit"
    /\ pure.in.has
    /\ pure.in.n < 1
    /\ pure.out = << 50 >>

----------------------------------------------------------------------------
(* Properties of the crawl, continued (Spec) *)

HasNoExplanation(list) ==
    \A k \in 1..Len(list) : "ai_explanation" \notin DOMAIN list[k]

\* C21: the scan of the three-page site (two pages with one violation each,
\* one clean, every page loading), with budget 10 and plan free, answers with
\* success, pages_scanned 3, total_violations 2, ai_level "none", an empty
\* ai_page_analysis and no ai_explanation on any violation.
C21_BasicCrawl ==
    (site = "basic" /\ req = BasicRequest /\ pc = "done"
                     /\ response.status # 500) =>
        /\ response.success
        /\ response.status = 200
        /\ response.pages_scanned = 3
        /\ response.total_violations = 2
        /\ Len(response.violations) = 2
        /\ response.ai_level = "none"
        /\ response.ai_page_analysis = <<>>
        /\ HasNoExplanation(response.violations)
        /\ aiCalls = <<>>

C21_Witness ==
    /\ site = "basic"
    /\ req = BasicRequest
    /\ pc = "done"
    /\ response.success
    /\ visited = {BasicHome, BasicAbout, BasicContact}
    /\ { v.rule_id : v \in Range(response.violations) } =
          {"color-contrast", "image-alt"}

\* the scanned-url list holds u, as it was audited or in canonical form
Scanned(u) == u \in visited \/ normalizeUrl(u) \in visited

\* C23: a URL whose audit failed is left out of the results: in a success
\* response every violation has a page_url of the scanned-url list, and every
\* snapshot of importantPages belongs to a URL of that list.
C23_FailedUrlExcluded ==
    (pc = "done" /\ response.success) =>
        /\ \A v \in Range(response.violations) : Scanned(v.page_url)
        /\ \A p \in Range(importantPages) : Scanned(p.url)

\* C24: a URL whose audit failed is marked visited, so it counts toward the
\* page budget, and the URLs whose audit was attempted in one scan, with or
\* without success, are never more than the page budget.
C24_FailedUrlVisited ==
    /\ \A u \in failed : Scanned(u)
    /\ Cardinality(failed \cup audited) <= pageLimit

\* the audit of the URL dequeued last is over: it ran to visited.add, the
\* URL was skipped as visited already, or the audit ended in the catch
AuditOver ==
    \/ currentUrl = EmptyString
    \/ Scanned(currentUrl)
    \/ currentUrl \in failed

\* C25: traversal is sequential: a URL is dequeued at the head of the loop
\* only, when the audit of the URL dequeued before it has completed or
\* failed, so no two page audits are in progress at a time.
C25_Sequential ==
    [][Len(toVisit') < Len(toVisit) => (pc = "loop" /\ AuditOver)]_vars

\* a URL has been dequeued after the audit of another one completed
C25_Witness ==
    /\ pc = "newPage"
    /\ visited # {}
    /\ ~Scanned(currentUrl)
    /\ currentUrl \notin failed

\* the while loop of lines 401-508 has been left
LoopExited == pc \in {"browserClose", "enrich", "analyze", "respond", "done"}
              /\ browser # "none"

RECURSIVE AnalysisEntries(_)
AnalysisEntries(calls) ==
    IF calls = <<>> THEN <<>>
    ELSE LET front == AnalysisEntries(SubSeq(calls, 1, Len(calls) - 1))
             c == calls[Len(calls)]
         IN IF c.outcome = "null" THEN front
            ELSE Append(front, [page_url |-> c.page, analysis |-> c.outcome])

\* the enrichment block has been run to its end
Enriched == pc = "respond" \/ (pc = "done" /\ browser = "closed"
                                           /\ response.status # 500)

\* C27: the deep analysis calls are issued one per entry of importantPages,
\* in capture order and one after the other; a call that returns nothing
\* leaves no entry and the pages after it are analysed all the same, so that
\* ai_page_analysis lists, in order, the snapshots whose call returned an
\* analysis.
C27_DeepAnalysisInOrder ==
    /\ Len(AnalyzeCalls) = analysisIndex
    /\ analysisIndex <= Len(importantPages)
    /\ \A k \in 1..Len(AnalyzeCalls) : AnalyzeCalls[k].page = importantPages[k].url
    /\ ai_page_analysis = AnalysisEntries(AnalyzeCalls)
    /\ (Enriched /\ aiLevel = "advanced") =>
          Len(AnalyzeCalls) = Len(importantPages)

\* the first of two calls returned nothing and the second an analysis
C27_Witness ==
    /\ pc = "done"
    /\ Len(importantPages) = 2
    /\ Len(AnalyzeCalls) = 2
    /\ AnalyzeCalls[1].outcome = "null"
    /\ Len(ai_page_analysis) = 1
    /\ ai_page_analysis[1].page_url = importantPages[2].url
    /\ importantPages[1].url # importantPages[2].url

\* the positions of the explainViolations calls of rule r among the AI calls
ExplainCallsOf(r) ==
    {k \in 1..Len(aiCalls) : aiCalls[k].kind = "explain" /\ aiCalls[k].rule = r}

\* the place in the list of the first violation of rule r
FirstIndexOf(list, r) ==
    CHOOSE i \in 1..Len(list) :
       /\ list[i].rule_id = r
       /\ \A j \in 1..Len(list) : list[j].rule_id = r => i <= j

\* C28: explainViolations issues exactly one call per rule id present in the
\* violation list and none for any other rule; the explanation of a call is
\* about the first violation of its rule in list order, and every violation
\* of that rule carries it.
C28_OneCallPerRule ==
    (ExplainRan /\ pc \in {"analyze", "respond", "done"}) =>
      /\ \A k \in 1..Len(aiCalls) :
            aiCalls[k].kind = "explain" =>
              \E i \in 1..Len(violations) : violations[i].rule_id = aiCalls[k].rule
      /\ Len(violationsWithExplanations) = Len(violations)
      /\ \A i \in 1..Len(violations) :
            LET r == violations[i].rule_id
                v == violationsWithExplanations[i]
            IN /\ Cardinality(ExplainCallsOf(r)) = 1
               /\ v.violation_id = violations[i].violation_id
               /\ v.ai_explanation =
                     IF OutcomeOf(r) = "json"
                     THEN << [rule_id |-> r,
                              about |-> violations[FirstIndexOf(violations, r)].violation_id] >>
                     ELSE <<>>

\* two violations of one rule on two pages, explained by one call
C28_Witness ==
    /\ pc = "done"
    /\ Len(violationsWithExplanations) = 2
    /\ violations[1].rule_id = violations[2].rule_id
    /\ violations[1].page_url # violations[2].page_url
    /\ Cardinality(ExplainCallsOf(violations[1].rule_id)) = 1
    /\ violationsWithExplanations[2].ai_explanation # <<>>
    /\ violationsWithExplanations[2].ai_explanation[1].about =
          violations[1].violation_id

\* C29: the violation list only grows at its end, and the k-th violation
\* appended carries the id made of the scan id and the index k-1, so that no
\* index is reused and no two violations of a scan share a violation_id.
C29_RunningIndex ==
    [][ /\ Len(violations) <= Len(violations')
        /\ SubSeq(violations', 1, Len(violations)) = violations
        /\ \A k \in 1..Len(violations') :
              violations'[k].violation_id =
                 << "VIO", ScanIdSuffix(req.scan_id), k - 1 >>
        /\ \A j, k \in 1..Len(violations') :
              j # k => violations'[j].violation_id # violations'[k].violation_id
      ]_vars

\* two violations appended from two pages
C29_Witness ==
    /\ Len(violations) = 2
    /\ violations[1].page_url # violations[2].page_url
    /\ violations[1].violation_id[3] = 0
    /\ violations[2].violation_id[3] = 1

\* the page under audit is the first of the scan, or was found to hold a
\* form control, or has five violations or more
Qualifies ==
    \/ Cardinality(visited) = 0
    \/ (pageData # <<>> /\ pageData[1].hasForms)
    \/ Len(result) >= 5

\* C30: at level advanced with fewer than 10 snapshots taken, a page whose
\* audit has run is set to be snapshotted exactly when it is the first page
\* of the scan, or holds a form control, or has at least 5 violations; the
\* snapshot then taken is one entry for that page, and importantPages
\* changes in no other way.
C30_SnapshotIffImportant ==
    [][ /\ (pc = "axe" /\ pc' \in {"snapshot", "links"}
             /\ aiLevel = "advanced" /\ Len(importantPages) < 10) =>
              ((pc' = "snapshot") <=> Qualifies')
        /\ (pc = "snapshot" /\ pc' = "links") =>
              /\ Len(importantPages') = Len(importantPages) + 1
              /\ importantPages'[Len(importantPages')].url = currentUrl
        /\ (importantPages' # importantPages) =>
              /\ pc = "snapshot"
              /\ aiLevel = "advanced"
              /\ SubSeq(importantPages', 1, Len(importantPages)) = importantPages
      ]_vars

\* a page that is not the first and holds no form is snapshotted for its five
\* violations, and one with four violations has been passed over
C30_Witness ==
    /\ site = "dense"
    /\ pc = "browserClose"
    /\ visited = {DenseHome, DenseFive, DenseFour}
    /\ Len(importantPages) = 2
    /\ importantPages[2].url = DenseFive
    /\ ~importantPages[2].data[1].hasForms
    /\ Len(violations) = 9

----------------------------------------------------------------------------
(* Properties of snapshots, responses and the crawl, concluded (Spec) *)

\* C31: snapshot selection is first-come without eviction: a step changes
\* importantPages only by appending one entry, leaving the entries it holds
\* in place, and once it holds 10 entries no step changes it, whatever page
\* qualifies afterwards.
C31_FirstComeNoEviction ==
    [][ /\ Len(importantPages) <= Len(importantPages')
        /\ SubSeq(importantPages', 1, Len(importantPages)) = importantPages
        /\ Len(importantPages') <= Len(importantPages) + 1
        /\ Len(importantPages) >= 10 => importantPages' = importantPages
        /\ (Len(importantPages) >= 10 /\ pc = "axe" /\ pc' # "loop") =>
              pc' = "links"
      ]_vars

\* the ten first pages hold the ten slots in capture order, and the eleventh,
\* which qualifies by its form, has been audited since
C31_Witness ==
    /\ site = "chain"
    /\ pc = "closePage"
    /\ currentUrl = ChainPage(NumChainPages)
    /\ isImportantPage
    /\ Len(importantPages) = 10
    /\ \A k \in 1..10 : importantPages[k].url = ChainPage(k)

\* C35: once the audit of a dequeued URL has run to visited.add, that URL
\* itself is in visited, and a URL whose audit ran through without failure is
\* not taken to a new page again.
C35_AuditedUrlInVisited ==
    /\ pc = "closePage" => currentUrl \in visited
    /\ pc = "newPage" => currentUrl \notin audited \ failed

\* the fields of the violation v other than ai_explanation
OriginalFields(v) == [f \in DOMAIN v \ {"ai_explanation"} |-> v[f]]

\* C36: what explainViolations returns has the length and the order of its
\* input, and each entry is the input violation with every field as it was
\* and ai_explanation added, whichever of the AI calls failed.
C36_ExplainKeepsViolations ==
    (ExplainRan /\ pc \in {"analyze", "respond", "done"}) =>
      /\ Len(violationsWithExplanations) = Len(violations)
      /\ \A i \in 1..Len(violations) :
            /\ DOMAIN violationsWithExplanations[i] =
                  DOMAIN violations[i] \cup {"ai_explanation"}
            /\ "ai_explanation" \notin DOMAIN violations[i]
            /\ OriginalFields(violationsWithExplanations[i]) = violations[i]

\* of two violations of two rules, the call of the first rule failed and the
\* call of the second gave an explanation
C36_Witness ==
    /\ pc \in {"respond", "done"}
    /\ ExplainRan
    /\ Len(violationsWithExplanations) = 2
    /\ violations[1].rule_id # violations[2].rule_id
    /\ violationsWithExplanations[1].ai_explanation = <<>>
    /\ violationsWithExplanations[2].ai_explanation # <<>>
    /\ OutcomeOf(violations[1].rule_id) = "rejected"

\* C37: in a success response total_violations is the length of the
\* violation list, the four impact counts and the number of violations of
\* impact "unknown" add up to it, and pages_scanned is the size of visited,
\* at least 1 and at most max_pages.
C37_AggregatesAgree ==
    (pc = "done" /\ response.success) =>
      /\ response.total_violations = Len(response.violations)
      /\ response.critical_count + response.serious_count
            + response.moderate_count + response.minor_count
            + Cardinality({i \in 1..Len(response.violations) :
                             response.violations[i].impact = "unknown"})
           = response.total_violations
      /\ response.pages_scanned = Cardinality(visited)
      /\ 1 <= response.pages_scanned
      /\ response.pages_scanned <= response.max_pages

\* a success response with violations of every impact, one of them reported
\* without an impact, and the page budget used up
C37_Witness ==
    /\ pc = "done"
    /\ response.success
    /\ response.total_violations = 9
    /\ response.critical_count = 4
    /\ response.serious_count = 1
    /\ response.moderate_count = 2
    /\ response.minor_count = 1
    /\ \E i \in 1..Len(response.violations) :
          response.violations[i].impact = "unknown"
    /\ response.pages_scanned = response.max_pages

----------------------------------------------------------------------------
(* Properties of the pure functions, concluded (SpecPure) *)

\* C32: for every URL that parses, the output of normalizeUrl has scheme
\* https, no default port, a lowercase host, no fragment, no trailing slash
\* unless the path is the root, and none of the tracking parameters.
C32_CanonicalShape ==
    (pure.fn = "normalizeUrl" /\ Len(pure.out) >= 1 /\ ~ParseFails(pure.in)) =>
        LET out == pure.out[1]
        IN /\ out.scheme = "https"
           /\ out.port \notin {"80", "443"}
           /\ out.host = LowerHost(out.host)
           /\ out.frag = ""
           /\ (out.path # <<"">> /\ out.path # <<>>) =>
                 out.path[Len(out.path)] # ""
           /\ \A k \in 1..Len(out.query) : out.query[k] \notin TrackingParams

\* the response text begins with the JSON object o, and the text after it
\* holds a closing brace; no fence anywhere
ObjectThenBrace(text, o) ==
    /\ IsJsonObject(o)
    /\ Len(o) < Len(text)
    /\ SubSeq(text, 1, Len(o)) = o
    /\ \E n \in (Len(o) + 1)..Len(text) : text[n] = "}"
    /\ \A n \in 1..Len(text) : text[n] \notin Fences

\* the first json fence of the response text encloses the JSON object o
FencedObject(text, o) ==
    /\ IsJsonObject(o)
    /\ \E i \in 1..Len(text) :
          /\ text[i] = "FENCE_JSON"
          /\ \A j \in 1..(i - 1) : text[j] # "FENCE_JSON"
          /\ i + Len(o) + 1 <= Len(text)
          /\ SubSeq(text, i + 1, i + Len(o)) = o
          /\ text[i + Len(o) + 1] \in Fences

\* C33: the parsing of an AI response yields the object of the first fenced
\* JSON block when there is one, and otherwise the first balanced span of
\* braces: a response that is a JSON object followed by text with a closing
\* brace in it parses to that object, in explainViolations and in
\* runAdvancedAIAnalysis alike.
C33_FirstObjectParsed ==
    (pure.fn \in {"parseAnalysis", "parseExplanation"} /\ pure.out # <<>>) =>
        \A o \in SeqsUpTo(Tokens, Len(pure.in)) :
           /\ ObjectThenBrace(pure.in, o) =>
                 pure.out[1] = [kind |-> "parsed", value |-> o]
           /\ (pure.fn = "parseAnalysis" /\ FencedObject(pure.in, o)) =>
                 pure.out[1] = [kind |-> "parsed", value |-> o]

\* C34: normalizeUrl never raises: applied to a string that new URL rejects,
\* it returns that very string.
C34_UnparsedReturnedUnchanged ==
    (pure.fn = "normalizeUrl" /\ ParseFails(pure.in)) =>
        \A k \in 1..Len(pure.out) : pure.out[k] = pure.in

\* "not a url" went through normalizeUrl and came back
C34_Witness ==
    /\ pure.fn = "normalizeUrl"
    /\ pure.in = SeedNoUrl
    /\ ParseFails(pure.in)
    /\ Len(pure.out) >= 1
    /\ pure.out[1] = SeedNoUrl

----------------------------------------------------------------------------
(* Properties of two interleaved handlers (SpecTwo) *)

\* What a handler that runs alone leaves for request r on the three-page
\* site: the pages in the order it audits them, as many as its budget allows
SoloPages(r) ==
    SubSeq(<< BasicHome, BasicAbout, BasicContact >>, 1,
           Min(3, PageLimit(r.max_pages)))

RECURSIVE SoloViolationsOf(_, _, _)
SoloViolationsOf(list, pages, scanId) ==
    IF pages = <<>> THEN list
    ELSE SoloViolationsOf(
            PushViolations(list, BasicAxeResult(Head(pages)), Head(pages), scanId),
            Tail(pages), scanId)

SoloViolations(r) == SoloViolationsOf(<<>>, SoloPages(r), r.scan_id)

SoloPending(r) == IF Len(SoloPages(r)) = 3 THEN <<>> ELSE << BasicContact >>

SoloSnapshots(r) ==
    IF AiLevel(r.plan) = "advanced"
    THEN << [url |-> BasicHome, data |-> << [hasForms |-> FALSE] >>] >>
    ELSE <<>>

IsPrefix(a, b) == Len(a) <= Len(b) /\ a = SubSeq(b, 1, Len(a))

\* the frame f holds what its handler would hold had it run alone
AsAlone(f) ==
    /\ f.visited \subseteq Range(SoloPages(f.req))
    /\ IsPrefix(f.violations, SoloViolations(f.req))
    /\ IsPrefix(f.importantPages, SoloSnapshots(f.req))
    /\ (f.pc = "done" /\ f.response.status = 200) =>
          /\ f.visited = Range(SoloPages(f.req))
          /\ f.toVisit = SoloPending(f.req)
          /\ f.violations = SoloViolations(f.req)
          /\ f.importantPages = SoloSnapshots(f.req)
          /\ f.response.pages_scanned = Len(SoloPages(f.req))
          /\ f.response.total_violations = Len(SoloViolations(f.req))
          /\ f.response.ai_level = AiLevel(f.req.plan)

\* C22: two handlers that interleave at their awaits share no mutable state:
\* the visited set, the pending set, the violation list, importantPages and
\* the response of each are those of a handler that ran alone on the site.
C22_NoSharedState ==
    site = "basic" =>
        /\ AsAlone(Frame)
        /\ other.pc # "none" => AsAlone(other)

\* both handlers are in the middle of their crawls
C22_Witness ==
    /\ pc = "links"
    /\ other.pc = "axe"
    /\ Cardinality(visited) = 1
    /\ Cardinality(other.visited) = 1
    /\ req.scan_id # other.req.scan_id

====
